---- MODULE Spec2Model ----
(***************************************************************************)
(* Model of the geolocation API (main.py, services.py, models.py,          *)
(* schemas.py): the three bulk loaders and the query endpoints.            *)
(*                                                                         *)
(* Every handler reads and writes exactly one table, so a behaviour        *)
(* follows one table: Init chooses the entity kind (city, dmas, pipes)     *)
(* and the contents of that entity's source file, which stay fixed.        *)
(*                                                                         *)
(* A load request runs in three steps, split where the handler awaits:     *)
(*   Probe   the database evaluates the EXISTS probe                       *)
(*   Parse   the handler resumes, reads the whole file, buffers entities   *)
(*   Commit  add_all + commit: the database inserts the batch or rejects   *)
(* Geometry text is abstracted to the WKT literals of WktCells; a date or  *)
(* number cell is abstracted to whether it parses.                         *)
(***************************************************************************)
EXTENDS Integers, Sequences, FiniteSets, TLC

VARIABLES entity, file, table, req, reply

vars == <<entity, file, table, req, reply>>

\* ---------------------------------------------------------------- bounds
MaxRows == 2
MaxReqs == 3

Reqs == 1..MaxReqs

\* ------------------------------------------------------------- constants
Kinds == {"city", "dmas", "pipes"}

MsgLoaded == "Data loaded successfully"
MsgAlready == "Data is already loaded"
MsgError == "An error occurred while loading data"

NoResp == [status |-> 0, message |-> ""]
Ok200(m) == [status |-> 200, message |-> m]
\* an exception that leaves the handler: the framework answers 500
Unhandled == [status |-> 500, message |-> "Internal Server Error"]

\* ------------------------------------------------------- geometry cells
\* loads(text): the parsed geometry (geom_type and canonical .wkt), or an
\* exception for text that is not WKT
WktCells == { "POINT(1 1)", "LINESTRING(0 0,1 1)", "MULTILINESTRING((0 0,1 1))",
              "POLYGON((0 0,1 0,1 1,0 0))", "MULTIPOLYGON(((70 60,71 60,71 61,70 60)))" }
NotWkt == "not wkt"
GeomCells == {""} \cup WktCells \cup {NotWkt}

loads(text) ==
    CASE text = "POINT(1 1)" -> [geom_type |-> "Point", wkt |-> "POINT (1 1)"]
      [] text = "LINESTRING(0 0,1 1)" ->
            [geom_type |-> "LineString", wkt |-> "LINESTRING (0 0, 1 1)"]
      [] text = "MULTILINESTRING((0 0,1 1))" ->
            [geom_type |-> "MultiLineString", wkt |-> "MULTILINESTRING ((0 0, 1 1))"]
      [] text = "POLYGON((0 0,1 0,1 1,0 0))" ->
            [geom_type |-> "Polygon", wkt |-> "POLYGON ((0 0, 1 0, 1 1, 0 0))"]
      [] text = "MULTIPOLYGON(((70 60,71 60,71 61,70 60)))" ->
            [geom_type |-> "MultiPolygon", wkt |-> "MULTIPOLYGON (((70 60, 71 60, 71 61, 70 60)))"]
      [] OTHER -> [geom_type |-> "raise", wkt |-> ""]

\* geom_type of a stored geometry value (canonical WKT, "NULL" for None)
StoredType(g) ==
    CASE g = "NULL" -> "NULL"
      [] g = "POINT (1 1)" -> "Point"
      [] g = "LINESTRING (0 0, 1 1)" -> "LineString"
      [] g = "MULTILINESTRING ((0 0, 1 1))" -> "MultiLineString"
      [] g = "POLYGON ((0 0, 1 0, 1 1, 0 0))" -> "Polygon"
      [] g = "MULTIPOLYGON (((70 60, 71 60, 71 61, 70 60)))" -> "MultiPolygon"
      [] OTHER -> "?"

\* --------------------------------------------------------- source files
DmaKeys == {"2300", "314-07"}

StateCodes == { <<"C", "A">>, <<"c", "a">> }
CityNames == {"Salem", "Dover"}
Counties == {"Kent"}
Coords == {0, 3}

\* one data line of output.csv: row[1] key, row[6] geometry, and whether the
\* number/date cells row[7..9] parse. Every geometry cell occurs with parsing
\* cells; a second key and malformed cells occur with representative
\* geometries (allowed, empty, disallowed)
DmaRows ==
    [key : {"2300"}, geom : GeomCells, cells : {"ok"}]
    \cup [key : {"314-07"}, geom : {"POLYGON((0 0,1 0,1 1,0 0))", ""}, cells : {"ok"}]
    \cup [key : {"2300"}, geom : {"POLYGON((0 0,1 0,1 1,0 0))", "POINT(1 1)"},
          cells : {"bad"}]
\* one data line of output_pipes.csv: row[1] geometry, and whether the
\* date/number cells row[4], row[5], row[9], row[10] parse
PipeRows ==
    [geom : GeomCells, cells : {"ok"}]
    \cup [geom : {"LINESTRING(0 0,1 1)", "POINT(1 1)"}, cells : {"bad"}]
\* one data line of us_cities.csv: row[1], row[3], row[4], row[5], row[6]
CityRows == [state_code : StateCodes, city : CityNames, county : Counties,
             c5 : Coords, c6 : {0}]

\* the header line holds column names: no geometry, no number, no date
DmaHeader == [key |-> "dma_key", geom |-> NotWkt, cells |-> "bad"]
PipeHeader == [geom |-> NotWkt, cells |-> "bad"]
CityHeader == [state_code |-> <<"S", "T">>, city |-> "CITY", county |-> "COUNTY",
               c5 |-> 0, c6 |-> 0]

RowsOf(k) == CASE k = "city" -> CityRows [] k = "dmas" -> DmaRows [] OTHER -> PipeRows
HeaderOf(k) ==
    CASE k = "city" -> CityHeader [] k = "dmas" -> DmaHeader [] OTHER -> PipeHeader

SeqsUpTo(S, n) == UNION { [1..m -> S] : m \in 0..n }

\* a missing file, an empty file, or a header line followed by data lines
Files(k) ==
    { [exists |-> FALSE, lines |-> <<>>], [exists |-> TRUE, lines |-> <<>>] }
    \cup { [exists |-> TRUE, lines |-> <<HeaderOf(k)>> \o rows] :
              rows \in SeqsUpTo(RowsOf(k), MaxRows) }

\* ------------------------------------------------------------- services
\* is_*_table_empty: not EXISTS (SELECT id IS NOT NULL FROM t)
RowExists_two(t) == Len(t) > 1
RowExists(t) == \E i \in 1..Len(t) : TRUE
is_table_empty_always(t) == TRUE
is_table_empty(t) == ~ RowExists(t)

\* --------------------------------------------------------- row handling
\* outcome of one pass of the loop body: an entity, a skipped row
\* (continue), or an exception
RowOk(e) == [kind |-> "ok", entity |-> e, exc |-> "none"]
RowSkip == [kind |-> "skip", entity |-> <<>>, exc |-> "none"]
RowRaise(x) == [kind |-> "raise", entity |-> <<>>, exc |-> x]

DmaAllowed == {"Polygon", "MultiPolygon"}
PipeAllowed == {"LineString", "MultiLineString"}

\* NormalizeGeom storing a disallowed subtype as NULL instead of skipping
NormalizeGeom_null(cell, allowed) ==
    IF cell = ""
    THEN [kind |-> "ok", wkt_geom |-> "NULL"]
    ELSE LET g == loads(cell) IN
         IF g.geom_type = "raise" THEN [kind |-> "raise", wkt_geom |-> "NULL"]
         ELSE IF g.geom_type \in allowed THEN [kind |-> "ok", wkt_geom |-> g.wkt]
         ELSE [kind |-> "ok", wkt_geom |-> "NULL"]

\* the geometry part of the loop body of load_dmas / load_pipes
\* result: [kind "ok", wkt_geom] | skip | raise
NormalizeGeom(cell, allowed) ==
    IF cell = ""
    THEN [kind |-> "ok", wkt_geom |-> "NULL"]
    ELSE LET g == loads(cell) IN
         IF g.geom_type = "raise" THEN [kind |-> "raise", wkt_geom |-> "NULL"]
         ELSE IF g.geom_type \in allowed THEN [kind |-> "ok", wkt_geom |-> g.wkt]
         ELSE [kind |-> "skip", wkt_geom |-> "NULL"]

DmaRow(row, line) ==
    LET n == NormalizeGeom(row.geom, DmaAllowed) IN
    IF n.kind = "raise" THEN RowRaise("WKTReadingError")
    ELSE IF n.kind = "skip" THEN RowSkip
    ELSE IF row.cells = "bad" THEN RowRaise("ValueError")
    ELSE RowOk([dma_key |-> row.key, geom |-> n.wkt_geom, line |-> line])

PipeRow(row, line) ==
    LET n == NormalizeGeom(row.geom, PipeAllowed) IN
    IF n.kind = "raise" THEN RowRaise("WKTReadingError")
    ELSE IF n.kind = "skip" THEN RowSkip
    ELSE IF row.cells = "bad" THEN RowRaise("ValueError")
    ELSE RowOk([geom |-> n.wkt_geom, line |-> line])

CityRow(row, line) ==
    RowOk([state_code |-> row.state_code, city |-> row.city, county |-> row.county,
           geo_location |-> <<row.c5, row.c6>>, line |-> line])

EntityOf(k, row, line) ==
    CASE k = "city" -> CityRow(row, line)
      [] k = "dmas" -> DmaRow(row, line)
      [] OTHER -> PipeRow(row, line)

\* the for loop over the data lines, from line i on, with the entities
\* buffered so far: the first exception ends it
RECURSIVE Loop(_, _, _, _)
Loop(k, lines, i, acc) ==
    IF i > Len(lines) THEN [exc |-> "none", buffer |-> acc]
    ELSE LET o == EntityOf(k, lines[i], i) IN
         IF o.kind = "raise" THEN [exc |-> o.exc, buffer |-> <<>>]
         ELSE IF o.kind = "skip" THEN Loop(k, lines, i + 1, acc)
         ELSE Loop(k, lines, i + 1, Append(acc, o.entity))

\* open(), next(csv_reader) and the loop
ReadFile(k, f) ==
    IF ~ f.exists THEN [exc |-> "FileNotFoundError", buffer |-> <<>>]
    ELSE IF f.lines = <<>> THEN [exc |-> "StopIteration", buffer |-> <<>>]
    ELSE Loop(k, f.lines, 2, <<>>)

\* try/except Exception of load_dmas and load_pipes; load_cities has none
Guarded(k) == k \in {"dmas", "pipes"}
OnException(k) == IF Guarded(k) THEN Ok200(MsgError) ELSE Unhandled

\* the rows a commit adds to the table: the buffer, in order
Stamp(buffer, r) == [i \in 1..Len(buffer) |-> [row |-> buffer[i], by |-> r]]
Inserted(t, buffer, r) == t \o Stamp(buffer, r)

\* ----------------------------------------------------------------- state
\* req[r]: one load request. pc is its position in the handler, buffer the
\* entities built from the file, exc the exception that ended it, resp its
\* response; before and after record the table at its probe and at its end
IdleReq == [pc |-> "idle", buffer |-> <<>>, exc |-> "none", resp |-> NoResp,
            before |-> <<>>, after |-> <<>>]
NoReply == [op |-> "none"]

Init ==
    /\ entity \in Kinds
    /\ file \in Files(entity)
    /\ table = <<>>
    /\ req = [r \in Reqs |-> IdleReq]
    /\ reply = NoReply

\* requests are numbered in their order of arrival
Arrived(q) == IF q \in Reqs THEN req[q].pc # "idle" ELSE TRUE
InFlight(r) == req[r].pc \in {"probed", "parsed"}
Finish(r, resp, exc, t) ==
    [req EXCEPT ![r].pc = "done", ![r].resp = resp, ![r].exc = exc,
                ![r].buffer = <<>>, ![r].after = t]

\* ----------------------------------------------------------- load steps
\* the request arrives and the database answers the existence probe (a read
\* with no data-dependent failure: it always answers)
Probe(r) ==
    /\ req[r].pc = "idle"
    /\ Arrived(r - 1)
    /\ IF is_table_empty(table)
       THEN req' = [req EXCEPT ![r].pc = "probed", ![r].before = table]
       ELSE req' = [Finish(r, Ok200(MsgAlready), "none", table) EXCEPT ![r].before = table]
    /\ UNCHANGED <<entity, file, table, reply>>

\* the handler resumes: reads and parses the file, buffers the entities
Parse(r) ==
    /\ req[r].pc = "probed"
    /\ LET p == ReadFile(entity, file) IN
       IF p.exc # "none"
       THEN req' = Finish(r, OnException(entity), p.exc, table)
       ELSE req' = [req EXCEPT ![r].pc = "parsed", ![r].buffer = p.buffer]
    /\ UNCHANGED <<entity, file, table, reply>>

\* CommitOk that inserts only into a table that is still empty
CommitOk_guarded(r) ==
    /\ req[r].pc = "parsed"
    /\ is_table_empty(table)
    /\ table' = Inserted(table, req[r].buffer, r)
    /\ req' = Finish(r, Ok200(MsgLoaded), "none", table')
    /\ UNCHANGED <<entity, file, reply>>

\* add_all + commit: the batch is inserted in one transaction
CommitOk(r) ==
    /\ req[r].pc = "parsed"
    /\ table' = Inserted(table, req[r].buffer, r)
    /\ req' = Finish(r, Ok200(MsgLoaded), "none", table')
    /\ UNCHANGED <<entity, file, reply>>

\* CommitFail without the transaction: the rows sent before the failure stay
CommitFail_partial(r) ==
    /\ req[r].pc = "parsed"
    /\ table' = Inserted(table, IF req[r].buffer = <<>> THEN <<>>
                                 ELSE <<Head(req[r].buffer)>>, r)
    /\ req' = Finish(r, OnException(entity), "DBAPIError", table')
    /\ UNCHANGED <<entity, file, reply>>

\* the database rejects the batch (a column check, a lost connection): the
\* transaction is rolled back and commit raises
CommitFail(r) ==
    /\ req[r].pc = "parsed"
    /\ req' = Finish(r, OnException(entity), "DBAPIError", table)
    /\ UNCHANGED <<entity, file, table, reply>>

\* ------------------------------------------------------ query helpers
\* str.upper() on the letters that occur in the model
UpperChar(c) ==
    CASE c = "c" -> "C"
      [] c = "a" -> "A"
      [] c = "n" -> "N"
      [] c = "y" -> "Y"
      [] OTHER -> c
upper_identity(s) == s
upper(s) == [i \in 1..Len(s) |-> UpperChar(s[i])]

\* result.scalars().all() of a filtered select: the stored rows that
\* satisfy the filter, in table order
Rows(t) == [i \in 1..Len(t) |-> t[i].row]
Where(t, P(_)) == SelectSeq(Rows(t), P)

\* geography distance in metres between two points <<x, y>> = <<longitude,
\* latitude>>: 111 km to the degree of latitude, and to the degree of
\* longitude 111 km times the cosine of the latitude of q (in thousandths,
\* for the latitudes that occur)
Abs(x) == IF x < 0 THEN 0 - x ELSE x
CosPermille(lat) ==
    CASE Abs(lat) = 60 -> 500
      [] Abs(lat) = 61 -> 485
      [] Abs(lat) = 3 -> 999
      [] OTHER -> 1000
ST_Distance(p, q) == 111000 * Abs(p[2] - q[2]) + 111 * CosPermille(q[2]) * Abs(p[1] - q[1])
ST_DWithin(p, q, metres) == ST_Distance(p, q) <= metres

\* the vertices of a stored geometry
Vertices(g) ==
    CASE g = "POLYGON ((0 0, 1 0, 1 1, 0 0))" -> { <<0, 0>>, <<1, 0>>, <<1, 1>> }
      [] g = "MULTIPOLYGON (((70 60, 71 60, 71 61, 70 60)))" ->
            { <<70, 60>>, <<71, 60>>, <<71, 61>> }
      [] OTHER -> {}
MinOf(S) == CHOOSE m \in S : \A x \in S : m <= x

\* ST_Distance(geom, point): planar distance in degrees between two
\* geometries (for a point outside the polygon and nearest to one of its
\* vertices along an axis); NULL for a NULL geometry
ST_Distance_planar(g, p) ==
    IF g = "NULL" THEN "NULL"
    ELSE MinOf({ Abs(v[1] - p[1]) + Abs(v[2] - p[2]) : v \in Vertices(g) })

\* ST_Distance(geom, point, True): the geography distance in metres
ST_Distance_spheroid(g, p) ==
    IF g = "NULL" THEN "NULL"
    ELSE MinOf({ ST_Distance(v, p) : v \in Vertices(g) })

\* ST_Area(ST_Transform(geom, srid)): NULL for a NULL geometry
ST_Area(g, srid) == IF g = "NULL" THEN "NULL" ELSE <<"area", g, srid>>

\* epsg_codes of get_total_area
Regions == {"europe", "usa", "india"}
epsg_codes_swapped(region) ==
    CASE region = "europe" -> 3035
      [] region = "usa" -> 24376
      [] region = "india" -> 5070
epsg_codes(region) ==
    CASE region = "europe" -> 3035
      [] region = "usa" -> 5070
      [] region = "india" -> 24376

\* request inputs
PathStateCodes == { <<"C", "A">>, <<"c", "a">>, <<"C", "a">>, <<"N", "Y">>, <<"C">> }
BodyCounties == {"Kent", "Essex"}
BodyKms == {0, 1, 400}
QueryRegions == Regions \cup {"mars"}
QueryDmaKeys == DmaKeys \cup {"", "9999"}
Latitudes == {0, 60}
Longitudes == {1}
Distances == {1000, 4000000}
BodyLats == {3}
BodyLongs == {0}

\* ------------------------------------------------------- query handlers
\* reply is the outcome of the latest query: its input, its response, the
\* number of statements it ran (stmts) and the table it ran against (db)
\* GET /cities/{state_code}
get_cities_in_state(state_code) ==
    /\ entity = "city"
    /\ IF Len(state_code) # 2
       THEN reply' = [op |-> "get_cities_in_state", state_code |-> state_code,
                      status |-> 422, stmts |-> 0, body |-> <<>>, db |-> table]
       ELSE LET cities == Where(table, LAMBDA c : c.state_code = upper(state_code)) IN
            reply' = [op |-> "get_cities_in_state", state_code |-> state_code,
                      status |-> IF cities = <<>> THEN 404 ELSE 200,
                      stmts |-> 1, body |-> cities, db |-> table]
    /\ UNCHANGED <<entity, file, table, req>>

\* POST /nearby-cities-by-details
get_nearby_cities_by_details(city, county, state_code, km_within) ==
    /\ entity = "city"
    /\ LET in == [city |-> city, county |-> county, state_code |-> state_code,
                  km_within |-> km_within]
           found == Where(table, LAMBDA c : /\ c.city = city
                                            /\ c.state_code = state_code
                                            /\ c.county = county)
           nearby(target) ==
               Where(table, LAMBDA c : ST_DWithin(c.geo_location, target.geo_location,
                                                  1000 * km_within))
           out(status, exc, stmts, body) ==
               [op |-> "get_nearby_cities_by_details", in |-> in, status |-> status,
                exc |-> exc, stmts |-> stmts, body |-> body, db |-> table]
       IN
       IF km_within <= 0
       THEN reply' = out(422, "none", 0, <<>>)
       ELSE IF Len(found) > 1
       THEN \* scalar_one_or_none() on more than one row
            reply' = out(500, "MultipleResultsFound", 1, <<>>)
       ELSE IF Len(found) = 0
       THEN \* HTTPException(status=...) is not a valid call: TypeError
            reply' = out(500, "TypeError", 1, <<>>)
       ELSE LET names == nearby(found[1]) IN
            reply' = out(200, "none", 2, [i \in 1..Len(names) |-> names[i].city])
    /\ UNCHANGED <<entity, file, table, req>>

\* GET /dmas/total_area
get_total_area(region, dma_key) ==
    /\ entity = "dmas"
    /\ LET out(status, exc, stmts, srid, filter, value) ==
               [op |-> "get_total_area", region |-> region, dma_key |-> dma_key,
                status |-> status, exc |-> exc, stmts |-> stmts, srid |-> srid,
                filter |-> filter, value |-> value, db |-> table]
       IN
       IF region \notin Regions
       THEN reply' = out(400, "HTTPException", 0, 0, <<>>, "NULL")
       ELSE LET srid == epsg_codes(region)
                filter == IF dma_key # "" THEN <<dma_key>> ELSE <<>>
                rows == IF filter = <<>> THEN Rows(table)
                        ELSE Where(table, LAMBDA d : d.dma_key = filter[1])
            IN
            IF Len(rows) = 1
            THEN reply' = out(200, "none", 1, srid, filter, ST_Area(rows[1].geom, srid))
            ELSE \* scalar_one() on no row or on several rows
                 reply' = out(500, IF Len(rows) = 0 THEN "NoResultFound"
                                   ELSE "MultipleResultsFound", 1, srid, filter, "NULL")
    /\ UNCHANGED <<entity, file, table, req>>

\* ORDER BY ST_Distance(geom, point) ascending: the rows that may come
\* first. NULL sorts last; rows at the same distance come in any order
FirstByPlanar(t, p) ==
    LET known == { i \in 1..Len(t) : t[i].row.geom # "NULL" } IN
    IF known = {} THEN 1..Len(t)
    ELSE { i \in known :
             \A j \in known : ST_Distance_planar(t[i].row.geom, p)
                                  <= ST_Distance_planar(t[j].row.geom, p) }

\* GET /dmas/nearest/distance
get_distance_to_nearest_dma(latitude, longitude) ==
    /\ entity = "dmas"
    /\ LET point == <<longitude, latitude>>
           out(status, exc, value) ==
               [op |-> "get_distance_to_nearest_dma", latitude |-> latitude,
                longitude |-> longitude, point |-> point, status |-> status,
                exc |-> exc, stmts |-> 1, value |-> value, db |-> table]
       IN
       IF table = <<>>
       THEN \* scalar_one() on no row
            reply' = out(500, "NoResultFound", "NULL")
       ELSE \E i \in FirstByPlanar(table, point) :
               reply' = out(200, "none", ST_Distance_spheroid(table[i].row.geom, point))
    /\ UNCHANGED <<entity, file, table, req>>

\* GET /dmas/nearby
get_nearby_dmas(latitude, longitude, distance) ==
    /\ entity = "dmas"
    /\ LET point == <<longitude, latitude>>
           near == Where(table, LAMBDA d : /\ d.geom # "NULL"
                                           /\ ST_Distance_spheroid(d.geom, point)
                                                 <= distance)
       IN
       reply' = [op |-> "get_nearby_dmas", latitude |-> latitude,
                 longitude |-> longitude, distance |-> distance, point |-> point,
                 status |-> 200, stmts |-> 1, body |-> near, db |-> table]
    /\ UNCHANGED <<entity, file, table, req>>

\* POST /nearby-cities-by-coordinates
get_nearby_cities_by_coords(lat, long, km_within) ==
    /\ entity = "city"
    /\ LET point == <<lat, long>>
           near == Where(table, LAMBDA c : ST_DWithin(c.geo_location, point,
                                                      1000 * km_within))
           out(status, stmts, body) ==
               [op |-> "get_nearby_cities_by_coords", latitude |-> lat,
                longitude |-> long, km_within |-> km_within, point |-> point,
                status |-> status, stmts |-> stmts, body |-> body, db |-> table]
       IN
       IF Abs(lat) > 90 \/ Abs(long) > 180 \/ km_within <= 0
       THEN reply' = out(422, 0, <<>>)
       ELSE reply' = out(200, 1, [i \in 1..Len(near) |-> near[i].city])
    /\ UNCHANGED <<entity, file, table, req>>

Query ==
    \/ \E sc \in PathStateCodes : get_cities_in_state(sc)
    \/ \E c \in CityNames, k \in BodyCounties, sc \in StateCodes, km \in BodyKms :
          get_nearby_cities_by_details(c, k, sc, km)
    \/ \E g \in QueryRegions, k \in QueryDmaKeys : get_total_area(g, k)
    \/ \E lat \in Latitudes, lng \in Longitudes : get_distance_to_nearest_dma(lat, lng)
    \/ \E lat \in Latitudes, lng \in Longitudes, m \in Distances :
          get_nearby_dmas(lat, lng, m)
    \/ \E lat \in BodyLats, lng \in BodyLongs, km \in BodyKms :
          get_nearby_cities_by_coords(lat, lng, km)

Load(r) == Probe(r) \/ Parse(r) \/ CommitOk(r) \/ CommitFail(r)

\* requests served one after the other, queries in between: a request
\* arrives when no other load is under way
Sequential(r) == \A q \in Reqs \ {r} : ~ InFlight(q)
ProbeAlone(r) == Sequential(r) /\ Probe(r)
Next ==
    \/ \E r \in Reqs : ProbeAlone(r) \/ Parse(r) \/ CommitOk(r) \/ CommitFail(r)
    \/ Query

Spec == Init /\ [][Next]_vars

\* load requests that overlap: any interleaving of their steps
NextConc == \E r \in Reqs : Load(r)

SpecConc == Init /\ [][NextConc]_vars

\* ================================================================ claims
Done(r) == req[r].pc = "done"
Loaded(r) == Done(r) /\ req[r].resp = Ok200(MsgLoaded)
Already(r) == Done(r) /\ req[r].resp = Ok200(MsgAlready)
StoredBy(r) == { i \in 1..Len(table) : table[i].by = r }

\* lines of the file after the header, and the class of a line's geometry
DataLines == 2..Len(file.lines)
GeomClass(l) ==
    IF file.lines[l].geom = "" THEN "empty" ELSE loads(file.lines[l].geom).geom_type
AllowedTypes == IF entity = "dmas" THEN DmaAllowed ELSE PipeAllowed
Disallowed == { l \in DataLines : GeomClass(l) \notin AllowedTypes \cup {"empty", "raise"} }
Unparseable == { l \in DataLines : GeomClass(l) = "raise" }

\* C1 as stated: in sequential invocations from an empty table, for every
\* source file, the second invocation answers "Data is already loaded" and
\* the row count after the third equals the row count after the second
\* (read here in its most favourable form: the file exists and no invocation
\* raised).
C1_Original ==
    file.exists /\ (\A r \in Reqs : req[r].exc = "none") =>
        /\ Done(2) => req[2].resp = Ok200(MsgAlready)
        /\ Done(2) /\ Done(3) => Len(req[3].after) = Len(req[2].after)

\* C1 amended: in sequential invocations from an empty table, if the first
\* invocation stored at least one row, every later invocation answers
\* "Data is already loaded" and leaves the row count as it was after the
\* first; if the first stored nothing, the second runs the load again and
\* does not answer "Data is already loaded".
C1_Idempotent ==
    /\ Done(1) /\ req[1].after # <<>> =>
          \A r \in Reqs \ {1} :
              Done(r) => Already(r) /\ Len(req[r].after) = Len(req[1].after)
    /\ Done(1) /\ req[1].after = <<>> /\ Done(2) => ~ Already(2)

C1_Witness ==
    /\ Loaded(1) /\ req[1].after # <<>>
    /\ Already(2) /\ Already(3)
    /\ Len(req[3].after) = Len(req[2].after)

\* C2: a load that starts on a table with at least one row inserts nothing,
\* leaves the table as it was and answers "Data is already loaded"; in
\* sequential invocations all stored rows come from a single invocation.
C2_NoOpWhenLoaded ==
    /\ \A r \in Reqs :
          req[r].pc # "idle" /\ req[r].before # <<>> =>
              /\ Already(r)
              /\ req[r].after = req[r].before
              /\ StoredBy(r) = {}
    /\ \A i, j \in 1..Len(table) : table[i].by = table[j].by

C2_Witness ==
    \E r \in Reqs : Already(r) /\ req[r].before # <<>> /\ table = req[r].before

\* C3 as stated: after load_dmas on an empty table (the file is readable, its
\* number and date cells parse, the commit succeeds), no row with a Point
\* geometry is stored and the row count is the number of data rows minus the
\* rows with a disallowed subtype minus the rows with unparseable geometry.
C3_RowCount ==
    /\ entity = "dmas" /\ Done(1)
    /\ file.exists /\ file.lines # <<>>
    /\ req[1].exc \notin {"ValueError", "DBAPIError"}
    => /\ \A i \in 1..Len(req[1].after) :
              GeomClass(req[1].after[i].row.line) # "Point"
       /\ Len(req[1].after) =
              Cardinality(DataLines) - Cardinality(Disallowed) - Cardinality(Unparseable)

\* C4: a load that ends with an exception (file read, row parsing, commit)
\* persists no row: the table at its end is the table at its start and holds
\* no row of this request; load_dmas and load_pipes answer 200 with "An error
\* occurred while loading data", load_cities lets the exception through.
C4_FailedLoadPersistsNothing ==
    \A r \in Reqs :
        Done(r) /\ req[r].exc # "none" =>
            /\ req[r].after = req[r].before
            /\ StoredBy(r) = {}
            /\ entity \in {"dmas", "pipes"} => req[r].resp = Ok200(MsgError)
            /\ entity = "city" => req[r].resp.status = 500

C4_Witness ==
    \E r \in Reqs :
        /\ entity = "pipes" /\ Done(r)
        /\ req[r].exc = "DBAPIError"
        /\ \E l \in DataLines : GeomClass(l) \in PipeAllowed
        /\ req[r].resp = Ok200(MsgError) /\ table = <<>>

\* the upper-case form of a two-letter code, letter by letter
IsUpperOf(u, s) ==
    /\ Len(u) = Len(s)
    /\ \A i \in 1..Len(s) :
          <<s[i], u[i]>> \in { <<"c", "C">>, <<"a", "A">>, <<"n", "N">>, <<"y", "Y">>,
                               <<"C", "C">>, <<"A", "A">>, <<"N", "N">>, <<"Y", "Y">> }
StoredWithCode(u) == { i \in 1..Len(reply.db) : reply.db[i].row.state_code = u }

\* C5: get_cities_in_state with a 2-character code answers 404 when no stored
\* city has the upper-cased code (never 200 with an empty list), and otherwise
\* answers 200 with exactly the stored rows that have the upper-cased code.
C5_CitiesInState ==
    reply.op = "get_cities_in_state" /\ Len(reply.state_code) = 2 =>
        \A u \in StateCodes \cup PathStateCodes :
            IsUpperOf(u, reply.state_code) =>
                /\ StoredWithCode(u) = {} => reply.status = 404
                /\ StoredWithCode(u) # {} => reply.status = 200
                /\ reply.status = 200 => reply.body # <<>>
                /\ Len(reply.body) = Cardinality(StoredWithCode(u))
                /\ \A i \in 1..Len(reply.body) :
                      /\ reply.body[i].state_code = u
                      /\ \E j \in StoredWithCode(u) : reply.db[j].row = reply.body[i]

C5_Witness ==
    /\ reply.op = "get_cities_in_state"
    /\ reply.state_code = <<"c", "a">>
    /\ reply.status = 200
    /\ StoredWithCode(<<"c", "a">>) # {}
    /\ Len(reply.body) < Len(reply.db)

MatchingTriple(in) ==
    { i \in 1..Len(reply.db) : /\ reply.db[i].row.city = in.city
                            /\ reply.db[i].row.county = in.county
                            /\ reply.db[i].row.state_code = in.state_code }

\* C6 as stated: get_nearby_cities_by_details with no stored city matching the
\* (city, county, state_code) triple ends with a 404, after the lookup and
\* before the within-distance query.
C6_NotFound ==
    /\ reply.op = "get_nearby_cities_by_details"
    /\ reply.in.km_within > 0
    /\ MatchingTriple(reply.in) = {}
    => reply.status = 404 /\ reply.stmts = 1

\* C7 as stated: get_nearby_cities_by_details with km_within > 0 succeeds and
\* returns the target city's name whenever at least one stored city matches
\* the triple, also when the triple is stored more than once.
C7_SelfInclusion ==
    /\ reply.op = "get_nearby_cities_by_details"
    /\ reply.in.km_within > 0
    /\ MatchingTriple(reply.in) # {}
    => /\ reply.status = 200
       /\ \E i \in 1..Len(reply.body) : reply.body[i] = reply.in.city

StoredWithKey(k) == { i \in 1..Len(reply.db) : reply.db[i].row.dma_key = k }
MappedEpsg(region, code) ==
    <<region, code>> \in { <<"europe", 3035>>, <<"usa", 5070>>, <<"india", 24376>> }

Kept == { l \in DataLines : GeomClass(l) \in AllowedTypes \cup {"empty"} }
LinesStoredBy(r) == { table[i].row.line : i \in StoredBy(r) }

\* C9: every stored Dma geometry is NULL, Polygon or MultiPolygon and every
\* stored Pipe geometry is NULL, LineString or MultiLineString; a load that
\* succeeds stores exactly the lines with no geometry (as NULL) or an allowed
\* subtype (with that subtype), once each, and no line with another subtype.
C9_GeometryDomain ==
    entity \in {"dmas", "pipes"} =>
        /\ \A i \in 1..Len(table) :
              StoredType(table[i].row.geom) \in AllowedTypes \cup {"NULL"}
        /\ \A r \in Reqs :
              Loaded(r) =>
                  /\ LinesStoredBy(r) = Kept
                  /\ Cardinality(StoredBy(r)) = Cardinality(Kept)
                  /\ \A i \in StoredBy(r) :
                        StoredType(table[i].row.geom) =
                            IF GeomClass(table[i].row.line) = "empty" THEN "NULL"
                            ELSE GeomClass(table[i].row.line)

C9_Witness ==
    /\ entity = "pipes" /\ Loaded(1)
    /\ Disallowed # {} /\ Kept # {}
    /\ Len(table) = Cardinality(Kept)
    /\ \E i \in 1..Len(table) : StoredType(table[i].row.geom) = "MultiLineString"

\* C10: two loads of the same table that overlap can both see it empty and
\* both insert: a request that has passed the probe can always commit, and
\* every request that answered "Data loaded successfully" has stored every
\* kept line of the file once, so two such requests store each line twice.
C10_DoubleLoad ==
    /\ \A r \in Reqs : req[r].pc = "parsed" => ENABLED CommitOk(r)
    /\ \A r \in Reqs :
          Loaded(r) =>
              /\ req[r].before = <<>>
              /\ Cardinality(StoredBy(r)) = Len(table) \div Cardinality({q \in Reqs : Loaded(q)})
              /\ \A i \in StoredBy(r) :
                    Cardinality({ j \in 1..Len(table) : table[j].row = table[i].row })
                        >= Cardinality({q \in Reqs : Loaded(q)})

C10_Witness ==
    /\ Loaded(1) /\ Loaded(2) /\ req[3].pc = "idle"
    /\ req[1].before = <<>> /\ req[2].before = <<>>
    /\ Len(file.lines) = 3
    /\ Len(table) = 4
    /\ \A i \in 1..Len(table) :
          Cardinality({ j \in 1..Len(table) : table[j].row = table[i].row }) = 2

\* the smallest geography distance from a point to a stored geometry
KnownGeoms == { i \in 1..Len(reply.db) : reply.db[i].row.geom # "NULL" }
SphericalTo(i) == ST_Distance_spheroid(reply.db[i].row.geom, reply.point)

\* C11 as stated: get_distance_to_nearest_dma, with at least one stored DMA
\* geometry, returns the minimum over all stored geometries of the spherical
\* distance from the point: no stored geometry is nearer than the value.
C11_NearestIsSphericalMin ==
    reply.op = "get_distance_to_nearest_dma" /\ KnownGeoms # {} =>
        /\ reply.status = 200
        /\ \E i \in KnownGeoms : reply.value = SphericalTo(i)
        /\ \A i \in KnownGeoms : reply.value <= SphericalTo(i)

\* C12 as stated: get_nearby_dmas, get_distance_to_nearest_dma and
\* get_nearby_cities_by_coords build their point with the longitude first (x)
\* and the latitude second (y), whenever they get to run their query.
C12_LongitudeFirst ==
    /\ reply.op \in {"get_nearby_dmas", "get_distance_to_nearest_dma",
                     "get_nearby_cities_by_coords"}
    /\ reply.stmts = 1
    =>
        reply.point = <<reply.longitude, reply.latitude>>

====
